---- MODULE Spec2Model ----
(***************************************************************************)
(* A model of pixelmatch-py: core.pixelmatch (src/pixelmatch/core.py), its  *)
(* helpers (src/pixelmatch/utils.py) and the adapter for PIL images        *)
(* (src/pixelmatch/contrib/PIL.py).                                        *)
(*                                                                         *)
(* Python floats are modelled as exact rationals.  The numbers of the      *)
(* colour metric need about thirty decimal digits, so numerators are kept  *)
(* as little-endian sequences of base-10000 limbs.                         *)
(***************************************************************************)
EXTENDS Integers, Sequences, FiniteSets, TLC

VARIABLES
    img1, img2, width, height,  \* the arguments of the call
    output,                     \* the output argument, painted in place
    opts,                       \* the keyword options
    pc,                         \* "call", "validated", "sweep", "done", "raised"
    x, y, diff, maxDelta,       \* the locals of the sweep
    lastDelta,                  \* the sweep's local delta at the last pixel compared
    result,                     \* the value returned, or the error raised
    output0,                    \* history: output as it was when called
    counted,                    \* history: pixel numbers counted as a difference
    classes,                    \* history: the class of each pixel compared
    reads, nbrs,                \* history: what the classifier read and visited
    image,                      \* contrib.PIL: the output image of the adapter's call
    image0,                     \* history: image as it was when called
    pending, owner, partial     \* a sweep shared by workers: the pixels left,
                                \* each pixel's worker, each worker's count

(***************************************************************************)
(* Exact arithmetic: magnitudes                                            *)
(***************************************************************************)
RECURSIVE MagOfNat(_)
MagOfNat(n) == IF n = 0 THEN <<>> ELSE <<n % 10000>> \o MagOfNat(n \div 10000)

RECURSIVE MagNorm(_)
MagNorm(m) ==
    IF m = <<>> THEN <<>>
    ELSE IF m[Len(m)] = 0 THEN MagNorm(SubSeq(m, 1, Len(m) - 1))
    ELSE m

RECURSIVE MagCmpFrom(_, _, _)
MagCmpFrom(a, b, i) ==
    IF i = 0 THEN 0
    ELSE IF a[i] < b[i] THEN -1
    ELSE IF a[i] > b[i] THEN 1
    ELSE MagCmpFrom(a, b, i - 1)

MagCmp(a, b) ==
    IF Len(a) < Len(b) THEN -1
    ELSE IF Len(a) > Len(b) THEN 1
    ELSE MagCmpFrom(a, b, Len(a))

RECURSIVE MagAddC(_, _, _)
MagAddC(a, b, c) ==
    IF a = <<>> /\ b = <<>> THEN (IF c = 0 THEN <<>> ELSE <<c>>)
    ELSE LET la == IF a = <<>> THEN 0 ELSE Head(a)
             lb == IF b = <<>> THEN 0 ELSE Head(b)
             s == la + lb + c
         IN  <<s % 10000>> \o MagAddC(IF a = <<>> THEN a ELSE Tail(a),
                                      IF b = <<>> THEN b ELSE Tail(b),
                                      s \div 10000)

MagAdd(a, b) == MagAddC(a, b, 0)

\* a - b for a >= b
RECURSIVE MagSubB(_, _, _)
MagSubB(a, b, c) ==
    IF a = <<>> THEN <<>>
    ELSE LET lb == IF b = <<>> THEN 0 ELSE Head(b)
             d == Head(a) - lb - c
         IN  <<IF d < 0 THEN d + 10000 ELSE d>>
                \o MagSubB(Tail(a), IF b = <<>> THEN b ELSE Tail(b),
                           IF d < 0 THEN 1 ELSE 0)

MagSub(a, b) == MagNorm(MagSubB(a, b, 0))

RECURSIVE MagMulLimb(_, _, _)
MagMulLimb(a, k, c) ==
    IF a = <<>> THEN (IF c = 0 THEN <<>> ELSE <<c>>)
    ELSE LET p == Head(a) * k + c
         IN  <<p % 10000>> \o MagMulLimb(Tail(a), k, p \div 10000)

RECURSIVE MagMul(_, _)
MagMul(a, b) ==
    IF a = <<>> \/ b = <<>> THEN <<>>
    ELSE MagAdd(IF Head(b) = 0 THEN <<>> ELSE MagMulLimb(a, Head(b), 0),
                IF Tail(b) = <<>> THEN <<>> ELSE <<0>> \o MagMul(a, Tail(b)))

(***************************************************************************)
(* Exact arithmetic: signed integers [neg, mag]                            *)
(***************************************************************************)
ZInt(n) == [neg |-> n < 0, mag |-> MagOfNat(IF n < 0 THEN -n ELSE n)]

ZMk(neg, mag) == [neg |-> neg /\ mag # <<>>, mag |-> mag]

ZNeg(a) == ZMk(~a.neg, a.mag)

ZAdd(a, b) ==
    IF a.neg = b.neg THEN ZMk(a.neg, MagAdd(a.mag, b.mag))
    ELSE IF MagCmp(a.mag, b.mag) >= 0 THEN ZMk(a.neg, MagSub(a.mag, b.mag))
    ELSE ZMk(b.neg, MagSub(b.mag, a.mag))

ZMul(a, b) == ZMk(a.neg # b.neg, MagMul(a.mag, b.mag))

\* -1, 0, 1 as a is below, equal to, above b
ZCmp(a, b) ==
    IF a.neg /\ ~b.neg THEN -1
    ELSE IF ~a.neg /\ b.neg THEN 1
    ELSE IF a.neg THEN MagCmp(b.mag, a.mag)
    ELSE MagCmp(a.mag, b.mag)

\* the value of a small signed integer (|a| below 10000 * 10000)
ZSmall(a) ==
    LET v == (IF Len(a.mag) >= 1 THEN a.mag[1] ELSE 0)
             + (IF Len(a.mag) >= 2 THEN a.mag[2] * 10000 ELSE 0)
    IN  IF a.neg THEN -v ELSE v

(***************************************************************************)
(* Exact arithmetic: the floats of the program.  Every float the program   *)
(* computes is built from integers, decimal literals and divisions by 255  *)
(* with +, - and *, hence is n / (255^e255 * 10^e10) for an integer n.     *)
(***************************************************************************)
RECURSIVE MagPow(_, _)
MagPow(m, k) == IF k = 0 THEN <<1>> ELSE MagMul(m, MagPow(m, k - 1))

\* n / 10^e10: a decimal literal
Dec(n, e10) == [n |-> ZInt(n), e255 |-> 0, e10 |-> e10]

RInt(n) == Dec(n, 0)

Max(i, j) == IF i >= j THEN i ELSE j

\* the numerator of a over the denominator 255^e255 * 10^e10
RScale(a, e255, e10) ==
    IF (a.e255 = e255 /\ a.e10 = e10) \/ a.n.mag = <<>> THEN a.n
    ELSE ZMk(a.n.neg,
             MagMul(a.n.mag,
                    MagMul(MagPow(<<255>>, e255 - a.e255),
                           MagPow(<<10>>, e10 - a.e10))))

\* a over the denominator 255^2 * 10^20, which every value of the colour
\* metric has: the same number, quicker to compare
RCanon(a) == [n |-> RScale(a, 2, 20), e255 |-> 2, e10 |-> 20]

RAdd(a, b) ==
    LET e255 == Max(a.e255, b.e255)
        e10  == Max(a.e10, b.e10)
    IN  [n |-> ZAdd(RScale(a, e255, e10), RScale(b, e255, e10)),
         e255 |-> e255, e10 |-> e10]

RNeg(a) == [a EXCEPT !.n = ZNeg(a.n)]

RSub(a, b) == RAdd(a, RNeg(b))

RMul(a, b) ==
    [n |-> ZMul(a.n, b.n), e255 |-> a.e255 + b.e255, e10 |-> a.e10 + b.e10]

\* a / 255
RDiv255(a) == [a EXCEPT !.e255 = a.e255 + 1]

\* -1, 0, 1 as a is below, equal to, above b
RCmp(a, b) ==
    LET e255 == Max(a.e255, b.e255)
        e10  == Max(a.e10, b.e10)
    IN  ZCmp(RScale(a, e255, e10), RScale(b, e255, e10))

RLess(a, b) == RCmp(a, b) < 0

RIsZero(a) == a.n.mag = <<>>

RECURSIVE FloorAbove(_, _, _)
FloorAbove(nmag, dmag, h) ==
    IF MagCmp(MagMul(MagOfNat(h), dmag), nmag) > 0 THEN h
    ELSE FloorAbove(nmag, dmag, 2 * h)

\* the g with lo <= g < hi and g * d <= n < (g + 1) * d
RECURSIVE FloorBisect(_, _, _, _)
FloorBisect(nmag, dmag, lo, hi) ==
    IF hi - lo = 1 THEN lo
    ELSE LET mid == (lo + hi) \div 2
         IN  IF MagCmp(MagMul(MagOfNat(mid), dmag), nmag) > 0
             THEN FloorBisect(nmag, dmag, lo, mid)
             ELSE FloorBisect(nmag, dmag, mid, hi)

\* the g with g * d <= n < (g + 1) * d
FloorOf(nmag, dmag) == FloorBisect(nmag, dmag, 0, FloorAbove(nmag, dmag, 1))

Signed(neg, g) == IF neg THEN -g ELSE g

\* Python's int(x) for a float x: truncation toward zero
RTrunc(a) ==
    IF a.e255 = 0 /\ a.e10 = 0 THEN ZSmall(a.n)
    ELSE Signed(a.n.neg,
                FloorOf(a.n.mag,
                        MagMul(MagPow(<<255>>, a.e255), MagPow(<<10>>, a.e10))))

(***************************************************************************)
(* Buffers: flat zero-indexed sequences of channel values,                 *)
(* [R1, G1, B1, A1, R2, ...], modelled as functions on 0 .. n-1            *)
(***************************************************************************)
BufLen(buf) == Cardinality(DOMAIN buf)

\* the buffer holding the given sequence of (R, G, B, A) samples
Flat(pixels) ==
    [k \in 0 .. (4 * Len(pixels) - 1) |-> pixels[(k \div 4) + 1][(k % 4) + 1]]

\* buf[i]; an index outside the buffer (Python's IndexError) reads as -1
At(buf, i) == IF i \in DOMAIN buf THEN buf[i] ELSE -1

\* [buf[k + offset] for offset in range(4)]
Sample(buf, k) == <<At(buf, k), At(buf, k + 1), At(buf, k + 2), At(buf, k + 3)>>

(***************************************************************************)
(* Colour model (utils.py)                                                 *)
(***************************************************************************)
Coef(n) == Dec(n, 8)

rgb2y(r, g, b) ==
    RAdd(RAdd(RMul(r, Coef(29889531)), RMul(g, Coef(58662247))),
         RMul(b, Coef(11448223)))

rgb2i(r, g, b) ==
    RSub(RSub(RMul(r, Coef(59597799)), RMul(g, Coef(27417610))),
         RMul(b, Coef(32180189)))

rgb2q(r, g, b) ==
    RAdd(RSub(RMul(r, Coef(21147017)), RMul(g, Coef(52261711))),
         RMul(b, Coef(31114694)))

\* blend semi-transparent color with white
blend(c, a) == RAdd(RInt(255), RMul(RSub(c, RInt(255)), a))

blendRGB(r, g, b, a) == <<blend(r, a), blend(g, a), blend(b, a)>>

\* r, b, g = blendRGB(r, b, g, a): the tuple back in the order <<r, g, b>>
Reordered(t) == <<t[1], t[3], t[2]>>

\* the channels of sample s as they are, whatever its alpha
Unblended(s) == <<RInt(s[1]), RInt(s[2]), RInt(s[3])>>

\* lines 105-111: the channels <<r, g, b>> of sample s as floats, blended
\* with white when its alpha is below 255
Blended(s) ==
    IF s[4] < 255
    THEN Reordered(blendRGB(RInt(s[1]), RInt(s[3]), RInt(s[2]), RDiv255(RInt(s[4]))))
    ELSE <<RInt(s[1]), RInt(s[2]), RInt(s[3])>>

\* line 113
DeltaY(c1, c2) == RSub(rgb2y(c1[1], c1[2], c1[3]), rgb2y(c2[1], c2[2], c2[3]))

\* line 119
DeltaI(c1, c2) == RSub(rgb2i(c1[1], c1[2], c1[3]), rgb2i(c2[1], c2[2], c2[3]))

\* line 120
DeltaQ(c1, c2) == RSub(rgb2q(c1[1], c1[2], c1[3]), rgb2q(c2[1], c2[2], c2[3]))

\* the weights of y and i exchanged
WeightedSwapped(dy, di, dq) ==
    RAdd(RAdd(RMul(RMul(Dec(299, 3), dy), dy),
              RMul(RMul(Dec(5053, 4), di), di)),
         RMul(RMul(Dec(1957, 4), dq), dq))

\* line 122: 0.5053 * y * y + 0.299 * i * i + 0.1957 * q * q
Weighted(dy, di, dq) ==
    RAdd(RAdd(RMul(RMul(Dec(5053, 4), dy), dy),
              RMul(RMul(Dec(299, 3), di), di)),
         RMul(RMul(Dec(1957, 4), dq), dq))

\* lines 113-122 on the blended channels c1, c2
BlendedDelta(c1, c2, y_only) ==
    IF y_only THEN DeltaY(c1, c2)
    ELSE Weighted(DeltaY(c1, c2), DeltaI(c1, c2), DeltaQ(c1, c2))

\* color_delta on the two samples it reads
SampleDelta(s1, s2, y_only) ==
    IF s1[4] = s2[4] /\ s1[1] = s2[1] /\ s1[2] = s2[2] /\ s1[3] = s2[3]
    THEN RInt(0)
    ELSE BlendedDelta(Blended(s1), Blended(s2), y_only)

(***************************************************************************)
(* Inputs of the model: the samples images are made of, and the option     *)
(* values calls are made with                                              *)
(***************************************************************************)
Black       == <<0, 0, 0, 255>>
NearBlack   == <<20, 20, 20, 255>>
Gray        == <<128, 128, 128, 255>>
White       == <<255, 255, 255, 255>>
Red         == <<255, 0, 0, 255>>
Cyan        == <<0, 255, 255, 255>>
HalfRed     == <<255, 0, 0, 128>>
ClearBlack  == <<0, 0, 0, 0>>
ClearBlue   == <<100, 150, 200, 0>>
Green       == <<0, 255, 0, 255>>
Blue        == <<0, 0, 255, 255>>
Yellow      == <<255, 255, 0, 255>>
Magenta     == <<255, 0, 255, 255>>

\* the eight opaque samples with every channel 0 or 255, and five more
Palette ==
    {Black, NearBlack, Gray, White, Red, Cyan, HalfRed, ClearBlack, ClearBlue,
     Green, Blue, Yellow, Magenta}

\* threshold option values: 0, 0.05, 0.1 (the default), 1
Thresholds == {Dec(0, 0), Dec(5, 2), Dec(1, 1), Dec(1, 0)}

\* alpha option values: 0, 0.1 (the default), 0.5, 1
Alphas == {Dec(0, 0), Dec(1, 1), Dec(5, 1), Dec(1, 0)}

(***************************************************************************)
(* color_delta (utils.py), its values on the palette computed once         *)
(***************************************************************************)
DeltaTable ==
    [k \in Palette \X Palette \X BOOLEAN |->
        RCanon(SampleDelta(k[1], k[2], k[3]))] @@ <<>>

\* table[key] where the table has the key, else the value computed
Lookup(table, key, computed) ==
    IF key \in DOMAIN table THEN table[key] ELSE computed

color_delta(imgA, imgB, k, m, y_only) ==
    Lookup(DeltaTable, <<Sample(imgA, k), Sample(imgB, m), y_only>>,
           SampleDelta(Sample(imgA, k), Sample(imgB, m), y_only))

(***************************************************************************)
(* Anti-aliasing classifier (utils.py).  antialiased and has_many_siblings *)
(* return [ret, reads, nbrs]: the value the code returns, the buffer       *)
(* indices it read, and the <<x1, y1, x, y>> it visited as a neighbour     *)
(* (x, y) of the centre (x1, y1).                                          *)
(***************************************************************************)
Min(i, j) == IF i <= j THEN i ELSE j

\* max(x1 - 1, 0): the first column (row) of the window around c
Before(c) == Max(c - 1, 0)

\* the window's last column (row) taken one past the centre, whatever the size
AfterUnclamped(c, n) == c + 1

\* min(x1 + 1, width - 1): the last column (row) of the window around c
After(c, n) == Min(c + 1, n - 1)

\* for x in range(x0, x2 + 1): for y in range(y0, y2 + 1), as a sequence
Window(x0, x2, y0, y2) ==
    LET cols == x2 - x0 + 1
        rows == y2 - y0 + 1
    IN  IF cols <= 0 \/ rows <= 0 THEN <<>>
        ELSE [i \in 1 .. (cols * rows) |->
                 <<x0 + ((i - 1) \div rows), y0 + ((i - 1) % rows)>>]

\* the offsets all(img[pos + offset] == img[pos2 + offset] ...) evaluates
RECURSIVE AllEqualReads(_, _, _, _)
AllEqualReads(img, pos, pos2, offset) ==
    IF offset > 3 THEN {}
    ELSE {pos + offset, pos2 + offset}
           \cup (IF At(img, pos + offset) = At(img, pos2 + offset)
                 THEN AllEqualReads(img, pos, pos2, offset + 1)
                 ELSE {})

\* one iteration of the loop body of has_many_siblings, st the locals
SiblingStep(img, x1, y1, w, pos, nx, ny, st) ==
    IF nx = x1 /\ ny = y1 THEN st
    ELSE
      LET pos2 == (ny * w + nx) * 4
          same == \A offset \in 0 .. 3 :
                     At(img, pos + offset) = At(img, pos2 + offset)
          zeroes == IF same THEN st.zeroes + 1 ELSE st.zeroes
      IN  [zeroes |-> zeroes,
           returned |-> zeroes > 2,
           reads |-> st.reads \cup AllEqualReads(img, pos, pos2, 0),
           nbrs |-> st.nbrs \cup {<<x1, y1, nx, ny>>}]

RECURSIVE SiblingLoop(_, _, _, _, _, _, _, _)
SiblingLoop(img, x1, y1, w, pos, win, i, st) ==
    IF i > Len(win) \/ st.returned THEN st
    ELSE SiblingLoop(img, x1, y1, w, pos, win, i + 1,
                     SiblingStep(img, x1, y1, w, pos, win[i][1], win[i][2], st))

has_many_siblings(img, x1, y1, w, h) ==
    LET x0 == Before(x1)
        y0 == Before(y1)
        x2 == After(x1, w)
        y2 == After(y1, h)
        pos == (y1 * w + x1) * 4
        zeroes == IF x1 = x0 \/ x1 = x2 \/ y1 = y0 \/ y1 = y2 THEN 1 ELSE 0
        st == SiblingLoop(img, x1, y1, w, pos, Window(x0, x2, y0, y2), 1,
                          [zeroes |-> zeroes, returned |-> FALSE,
                           reads |-> {}, nbrs |-> {}])
    IN  [ret |-> st.returned, reads |-> st.reads, nbrs |-> st.nbrs]

\* lines 30-46: the locals st after a neighbour (nx, ny) whose brightness
\* differs from the centre's by delta
Tally(st, delta, nx, ny) ==
    IF RIsZero(delta)
    THEN [st EXCEPT !.zeroes = @ + 1, !.returned = st.zeroes + 1 > 2]
    ELSE IF RLess(delta, st.min_delta)
    THEN [st EXCEPT !.min_delta = delta, !.min_x = nx, !.min_y = ny]
    ELSE IF RLess(st.max_delta, delta)
    THEN [st EXCEPT !.max_delta = delta, !.max_x = nx, !.max_y = ny]
    ELSE st

\* the locals st with the reads of color_delta at pos and pos2 recorded
Visited(st, x1, y1, nx, ny, pos, pos2) ==
    [st EXCEPT !.reads = @ \cup {pos + o : o \in 0 .. 3}
                           \cup {pos2 + o : o \in 0 .. 3},
               !.nbrs = @ \cup {<<x1, y1, nx, ny>>}]

\* one iteration of the loop body of antialiased, st the locals
AntialiasedStep(img, x1, y1, w, pos, nx, ny, st) ==
    IF nx = x1 /\ ny = y1 THEN st
    ELSE Tally(Visited(st, x1, y1, nx, ny, pos, (ny * w + nx) * 4),
               color_delta(img, img, pos, (ny * w + nx) * 4, TRUE), nx, ny)

RECURSIVE AntialiasedLoop(_, _, _, _, _, _, _, _)
AntialiasedLoop(img, x1, y1, w, pos, win, i, st) ==
    IF i > Len(win) \/ st.returned THEN st
    ELSE AntialiasedLoop(img, x1, y1, w, pos, win, i + 1,
                         AntialiasedStep(img, x1, y1, w, pos,
                                         win[i][1], win[i][2], st))

\* the locals of antialiased when its neighbour loop ends
AntialiasedScan(img, x1, y1, w, h) ==
    LET x0 == Before(x1)
        y0 == Before(y1)
        x2 == After(x1, w)
        y2 == After(y1, h)
        pos == (y1 * w + x1) * 4
        zeroes == IF x1 = x0 \/ x1 = x2 \/ y1 = y0 \/ y1 = y2 THEN 1 ELSE 0
    IN  AntialiasedLoop(img, x1, y1, w, pos, Window(x0, x2, y0, y2), 1,
                        [zeroes |-> zeroes, returned |-> FALSE,
                         min_delta |-> RInt(0), max_delta |-> RInt(0),
                         min_x |-> 0, min_y |-> 0, max_x |-> 0, max_y |-> 0,
                         reads |-> {}, nbrs |-> {}])

\* a and b, b evaluated only when a holds
AndThen(a, b) ==
    IF a.ret
    THEN [ret |-> b.ret, reads |-> a.reads \cup b.reads, nbrs |-> a.nbrs \cup b.nbrs]
    ELSE a

\* a or b, b evaluated only when a fails
OrElse(a, b) ==
    IF a.ret
    THEN a
    ELSE [ret |-> b.ret, reads |-> a.reads \cup b.reads, nbrs |-> a.nbrs \cup b.nbrs]

\* FALSE, with what the scan read
Scanned(st) == [ret |-> FALSE, reads |-> st.reads, nbrs |-> st.nbrs]

\* the result with both extreme neighbours required to have many siblings
AntialiasedResultBoth(img, other, w, h, st) ==
    IF st.returned THEN Scanned(st)
    ELSE IF RIsZero(st.min_delta) \/ RIsZero(st.max_delta) THEN Scanned(st)
    ELSE AndThen(
           AndThen(has_many_siblings(img, st.min_x, st.min_y, w, h),
                   has_many_siblings(other, st.min_x, st.min_y, w, h)),
           AndThen(has_many_siblings(img, st.max_x, st.max_y, w, h),
                   has_many_siblings(other, st.max_x, st.max_y, w, h)))

\* lines 49-60: what antialiased returns when its loop ends with the locals st
AntialiasedResult(img, other, w, h, st) ==
    IF st.returned THEN Scanned(st)
    ELSE IF RIsZero(st.min_delta) \/ RIsZero(st.max_delta) THEN Scanned(st)
    ELSE OrElse(
           OrElse(Scanned(st),
                  AndThen(has_many_siblings(img, st.min_x, st.min_y, w, h),
                          has_many_siblings(other, st.min_x, st.min_y, w, h))),
           AndThen(has_many_siblings(img, st.max_x, st.max_y, w, h),
                   has_many_siblings(other, st.max_x, st.max_y, w, h)))

antialiased(img, x1, y1, w, h, other) ==
    AntialiasedResult(img, other, w, h, AntialiasedScan(img, x1, y1, w, h))

(***************************************************************************)
(* Pixel painter (utils.py)                                                *)
(***************************************************************************)
\* the float draw_gray_pixel computes for a sample: blend(rgb2y(r, g, b), alpha * a / 255)
GrayValue(s, alpha) ==
    blend(rgb2y(RInt(s[1]), RInt(s[2]), RInt(s[3])),
          RDiv255(RMul(alpha, RInt(s[4]))))

\* int(val) of these floats on the palette, computed once
GrayTable == [k \in Palette \X Alphas |-> RTrunc(GrayValue(k[1], k[2]))] @@ <<>>

\* int(val) for the three equal channels draw_gray_pixel hands to draw_pixel
GrayInt(s, alpha) ==
    Lookup(GrayTable, <<s, alpha>>, RTrunc(GrayValue(s, alpha)))

\* output[pos + 0] = r ... output[pos + 3] = 255, for r, g, b already int()
WritePixel(out, pos, r, g, b) ==
    [out EXCEPT ![pos] = r, ![pos + 1] = g, ![pos + 2] = b, ![pos + 3] = 255]

draw_pixel(out, pos, r, g, b) ==
    WritePixel(out, pos, RTrunc(r), RTrunc(g), RTrunc(b))

\* draw_pixel(output, i, val, val, val) for val already int()
WriteGray(out, i, val) == WritePixel(out, i, val, val, val)

\* the luminance of the sample s blended by alpha
OpaqueGrayValue(s, alpha) ==
    blend(rgb2y(RInt(s[1]), RInt(s[2]), RInt(s[3])), alpha)

\* the gray pixel blended by alpha alone, the sample's own alpha left out
draw_gray_pixel_opaque(img, i, alpha, out) ==
    WriteGray(out, i, RTrunc(OpaqueGrayValue(Sample(img, i), alpha)))

draw_gray_pixel(img, i, alpha, out) ==
    WriteGray(out, i, GrayInt(Sample(img, i), alpha))

(***************************************************************************)
(* core.pixelmatch.  An output argument is [present, buf]: None is         *)
(* present = FALSE; opts holds the keyword options.                        *)
(***************************************************************************)
None == [present |-> FALSE, buf |-> <<>>]

Buffer(buf) == [present |-> TRUE, buf |-> buf]

\* Python's truth value of output: None and an empty sequence are false
Truthy(out) == out.present /\ BufLen(out.buf) > 0

\* the three checks with the width/height check first
ValidateDimensionsFirst(i1, i2, w, h, out) ==
    IF BufLen(i1) # w * h * 4
    THEN "Image data size does not match width/height."
    ELSE IF BufLen(i1) # BufLen(i2) THEN "Image sizes do not match."
    ELSE IF Truthy(out) /\ BufLen(out.buf) # BufLen(i1)
    THEN "Diff image size does not match img1 & img2."
    ELSE "ok"

\* lines 45-57: the ValueError raised, or "ok"
Validate(i1, i2, w, h, out) ==
    IF BufLen(i1) # BufLen(i2) THEN "Image sizes do not match."
    ELSE IF Truthy(out) /\ BufLen(out.buf) # BufLen(i1)
    THEN "Diff image size does not match img1 & img2."
    ELSE IF BufLen(i1) # w * h * 4
    THEN "Image data size does not match width/height."
    ELSE "ok"

\* lines 61-63: the output buffer after the fast path
RECURSIVE FastPathPaint(_, _, _, _, _)
FastPathPaint(i1, alpha, out, i, n) ==
    IF i >= n THEN out
    ELSE FastPathPaint(i1, alpha, draw_gray_pixel(i1, 4 * i, alpha, out), i + 1, n)

\* identical images returned on with nothing painted
FastPathUnpainted(i1, w, h, out, o) == out

FastPath(i1, w, h, out, o) ==
    IF Truthy(out) /\ ~o.diff_mask
    THEN Buffer(FastPathPaint(i1, o.alpha, out.buf, 0, w * h))
    ELSE out

\* the threshold scaled by the metric's value for black against white
MaxDeltaOfWhite(threshold) == RCanon(RMul(RMul(RInt(32857), threshold), threshold))

\* line 69
MaxDelta(threshold) == RCanon(RMul(RMul(RInt(35215), threshold), threshold))

NoReads == [ret |-> FALSE, reads |-> {}, nbrs |-> {}]

\* the anti-aliasing test with only its first direction
IsAntialiasedFirst(i1, i2, w, h, px, py, includeAA) ==
    IF includeAA THEN NoReads
    ELSE antialiased(i1, px, py, w, h, i2)

\* lines 86-89: not includeAA and (antialiased(img1, ...) or antialiased(img2, ...))
IsAntialiased(i1, i2, w, h, px, py, includeAA) ==
    IF includeAA THEN NoReads
    ELSE OrElse(antialiased(i1, px, py, w, h, i2),
                antialiased(i2, px, py, w, h, i1))

\* the threshold test reversed
BelowThreshold(delta, maxD) == RLess(delta, maxD)

\* the threshold test with >= for >
AtOrAboveThreshold(delta, maxD) == ~RLess(delta, maxD)

\* line 84: delta > maxDelta
AboveThreshold(delta, maxD) == RLess(maxD, delta)

\* lines 91-92: the output after an anti-aliased pixel
AntialiasedPixel(o, out, pos) ==
    IF Truthy(out) /\ ~o.diff_mask
    THEN Buffer(draw_pixel(out.buf, pos, RInt(o.aa_color[1]),
                           RInt(o.aa_color[2]), RInt(o.aa_color[3])))
    ELSE out

\* a difference painted and counted, fail_fast not honoured
DiffPixelNoReturn(o, st, pos) ==
    [out |-> IF Truthy(st.out)
             THEN Buffer(draw_pixel(st.out.buf, pos, RInt(o.diff_color[1]),
                                    RInt(o.diff_color[2]), RInt(o.diff_color[3])))
             ELSE st.out,
     diff |-> st.diff + 1,
     returned |-> FALSE]

\* a difference counted only under "if output:", where it is painted
DiffPixelIfPainted(o, st, pos) ==
    IF Truthy(st.out)
    THEN [out |-> Buffer(draw_pixel(st.out.buf, pos, RInt(o.diff_color[1]),
                                    RInt(o.diff_color[2]), RInt(o.diff_color[3]))),
          diff |-> IF o.fail_fast THEN st.diff ELSE st.diff + 1,
          returned |-> o.fail_fast]
    ELSE [out |-> st.out, diff |-> st.diff, returned |-> FALSE]

\* a difference that under fail_fast returns before it is painted
DiffPixelReturnFirst(o, st, pos) ==
    IF o.fail_fast THEN [out |-> st.out, diff |-> st.diff, returned |-> TRUE]
    ELSE DiffPixelNoReturn(o, st, pos)

\* lines 93-100: a real difference; st = [out, diff, returned]
DiffPixel(o, st, pos) ==
    [out |-> IF Truthy(st.out)
             THEN Buffer(draw_pixel(st.out.buf, pos, RInt(o.diff_color[1]),
                                    RInt(o.diff_color[2]), RInt(o.diff_color[3])))
             ELSE st.out,
     diff |-> IF o.fail_fast THEN st.diff ELSE st.diff + 1,
     returned |-> o.fail_fast]

\* a matching pixel painted gray whenever there is an output, mask or not
SamePixelNoMask(i1, o, out, pos) ==
    IF Truthy(out)
    THEN Buffer(draw_gray_pixel(i1, pos, o.alpha, out.buf))
    ELSE out

\* lines 102-105: the output after a pixel within the threshold
SamePixel(i1, o, out, pos) ==
    IF Truthy(out) /\ ~o.diff_mask
    THEN Buffer(draw_gray_pixel(i1, pos, o.alpha, out.buf))
    ELSE out

\* lines 86-100: a pixel over the threshold, aa the outcome of its
\* anti-aliasing test
OverPixel(o, st, pos, aa) ==
    IF aa.ret
    THEN [out |-> AntialiasedPixel(o, st.out, pos),
          diff |-> st.diff, returned |-> FALSE,
          class |-> "aa", reads |-> aa.reads, nbrs |-> aa.nbrs]
    ELSE [class |-> "diff", reads |-> aa.reads, nbrs |-> aa.nbrs]
            @@ DiffPixel(o, st, pos)

\* the loop body taking a pixel for over the threshold once a difference
\* has been counted
ComparePixelSticky(i1, i2, w, h, o, maxD, px, py, st) ==
    IF st.diff > 0
         \/ AboveThreshold(color_delta(i1, i2, (py * w + px) * 4,
                                       (py * w + px) * 4, FALSE),
                           maxD)
    THEN OverPixel(o, st, (py * w + px) * 4,
                   IsAntialiased(i1, i2, w, h, px, py, o.includeAA))
    ELSE [out |-> SamePixel(i1, o, st.out, (py * w + px) * 4),
          diff |-> st.diff, returned |-> FALSE,
          class |-> "bg", reads |-> {}, nbrs |-> {}]

\* lines 78-105: the loop body at pixel (px, py); st = [out, diff, returned]
ComparePixel(i1, i2, w, h, o, maxD, px, py, st) ==
    IF AboveThreshold(color_delta(i1, i2, (py * w + px) * 4, (py * w + px) * 4,
                                  FALSE),
                      maxD)
    THEN OverPixel(o, st, (py * w + px) * 4,
                   IsAntialiased(i1, i2, w, h, px, py, o.includeAA))
    ELSE [out |-> SamePixel(i1, o, st.out, (py * w + px) * 4),
          diff |-> st.diff, returned |-> FALSE,
          class |-> "bg", reads |-> {}, nbrs |-> {}]

\* lines 76-108 from pixel number i on (pixel i is (i % w, i \div w))
RECURSIVE Sweep(_, _, _, _, _, _, _, _)

\* the sweep after pixel number i, whose loop body left the locals at after
SweepOn(i1, i2, w, h, o, maxD, i, after) ==
    IF after.returned THEN [ret |-> 1, out |-> after.out]
    ELSE Sweep(i1, i2, w, h, o, maxD, i + 1, after)

Sweep(i1, i2, w, h, o, maxD, i, st) ==
    IF i >= w * h THEN [ret |-> st.diff, out |-> st.out]
    ELSE SweepOn(i1, i2, w, h, o, maxD, i,
                 ComparePixel(i1, i2, w, h, o, maxD, i % w, i \div w, st))

\* the whole call: [error, ret, out]; ret is -1 when an error is raised
pixelmatch(i1, i2, w, h, out, o) ==
    IF Validate(i1, i2, w, h, out) # "ok"
    THEN [error |-> Validate(i1, i2, w, h, out), ret |-> -1, out |-> out]
    ELSE IF i1 = i2
    THEN [error |-> "ok", ret |-> 0, out |-> FastPath(i1, w, h, out, o)]
    ELSE [error |-> "ok"]
            @@ Sweep(i1, i2, w, h, o, MaxDelta(o.threshold), 0,
                     [out |-> out, diff |-> 0, returned |-> FALSE])

(***************************************************************************)
(* The calls the model makes                                               *)
(***************************************************************************)
MaxWidth == 3
MaxHeight == 2
MaxPixels == 6

\* the <<width, height>> of the images compared
Sizes ==
    {d \in (1 .. MaxWidth) \X (1 .. MaxHeight) : d[1] * d[2] <= MaxPixels}

\* a w x h image with every pixel c
Uniform(w, h, c) == Flat([i \in 1 .. (w * h) |-> c])

\* a w x h image of a to the left and b to the right of a vertical
\* (slope 0) or slanted (slope 1) edge through column s0 of row 0
Edge(w, h, a, b, s0, slope) ==
    Flat([i \in 1 .. (w * h) |->
             IF ((i - 1) % w) < s0 + slope * ((i - 1) \div w) THEN a ELSE b])

\* img with pixel number p set to the sample c
ReplacePixel(img, p, c) ==
    [k \in DOMAIN img |-> IF k \div 4 = p THEN c[(k % 4) + 1] ELSE img[k]]

\* the first n elements of img
Truncate(img, n) == [k \in 0 .. (n - 1) |-> img[k]]

Zeros(n) == [k \in 0 .. (n - 1) |-> 0]

\* a buffer none of whose elements is 0 or 255
Ramp(n) == [k \in 0 .. (n - 1) |-> 1 + (k % 7)]

FirstImages(w, h) ==
    {Uniform(w, h, Black), Edge(w, h, HalfRed, ClearBlue, 1, 1)}
      \cup {Edge(w, h, White, Black, s0, slope) :
              s0 \in (0 - h) .. w, slope \in {0, 1}}

\* img, img with one pixel replaced, img with two pixels next to each other
\* replaced, and two uniform images
SecondImages(img, w, h) ==
    {img} \cup {ReplacePixel(img, p, c) :
                   p \in 0 .. (w * h - 1),
                   c \in {NearBlack, Gray, HalfRed, ClearBlue}}
          \cup {ReplacePixel(ReplacePixel(img, p, Gray), (p + 1) % (w * h), HalfRed) :
                   p \in 0 .. (w * h - 1)}
          \cup {Uniform(w, h, NearBlack), Uniform(w, h, Gray)}

DefaultOptions ==
    [threshold |-> Dec(1, 1), includeAA |-> FALSE, alpha |-> Dec(1, 1),
     aa_color |-> <<255, 255, 0>>, diff_color |-> <<255, 0, 0>>,
     diff_mask |-> FALSE, fail_fast |-> FALSE]

\* the option values calls are made with
OptionSets ==
    {[DefaultOptions EXCEPT !.threshold = t] : t \in Thresholds}
      \cup {[DefaultOptions EXCEPT !.threshold = t, !.includeAA = TRUE] :
              t \in {Dec(0, 0), Dec(1, 1)}}
      \cup {[DefaultOptions EXCEPT !.threshold = t, !.fail_fast = TRUE] :
              t \in {Dec(0, 0), Dec(1, 1)}}
      \cup {[DefaultOptions EXCEPT !.includeAA = TRUE, !.fail_fast = TRUE]}
      \cup {[DefaultOptions EXCEPT !.includeAA = aa, !.diff_mask = TRUE] :
              aa \in BOOLEAN}
      \cup {[DefaultOptions EXCEPT !.fail_fast = TRUE, !.diff_mask = TRUE]}
      \cup {[DefaultOptions EXCEPT !.alpha = a] : a \in {Dec(0, 0), Dec(1, 0)}}
      \cup {[DefaultOptions EXCEPT !.threshold = Dec(5, 2), !.alpha = Dec(5, 1),
                                   !.aa_color = <<0, 192, 0>>,
                                   !.diff_color = <<255, 0, 255>>]}

\* the output arguments a call with options o is made with, n the images' length
Outputs(o, n) ==
    IF o.diff_mask THEN {Buffer(Ramp(n))}
    ELSE {Buffer(Zeros(n))}
           \cup (IF o.threshold = DefaultOptions.threshold
                    /\ o.alpha = DefaultOptions.alpha /\ ~o.fail_fast
                 THEN {None} ELSE {})

\* the variables core.pixelmatch, called on its own and sweeping in row-major
\* order, leaves alone
aside == <<image, image0, pending, owner, partial>>

vars == <<img1, img2, width, height, output, opts, pc, x, y, diff, maxDelta,
          lastDelta, result, output0, counted, classes, reads, nbrs, aside>>

\* the locals and the history before anything has run
InitState ==
    /\ x = 0 /\ y = 0 /\ diff = 0
    /\ maxDelta = RInt(0)
    /\ lastDelta = RInt(0)
    /\ result = [kind |-> "none", value |-> 0, error |-> "ok"]
    /\ output0 = output
    /\ counted = {}
    /\ classes = <<>>
    /\ reads = {}
    /\ nbrs = {}

InitLocals ==
    /\ pc = "call"
    /\ InitState

\* a call of core.pixelmatch itself, swept by the one caller
InitAside ==
    /\ image = None
    /\ image0 = None
    /\ pending = {}
    /\ owner = <<>>
    /\ partial = <<>>

\* well-formed calls: equal lengths, output None or of the images' length
InitValid ==
    /\ \E d \in Sizes : width = d[1] /\ height = d[2]
    /\ img1 \in FirstImages(width, height)
    /\ img2 \in SecondImages(img1, width, height)
    /\ opts \in OptionSets
    /\ output \in Outputs(opts, width * height * 4)
    /\ InitLocals
    /\ InitAside

\* calls whose buffer lengths do not fit each other or width * height * 4
InitMalformed ==
    /\ \E d \in Sizes : width = d[1] /\ height = d[2]
    /\ opts = DefaultOptions
    /\ \E w \in {width, width + 1}, n \in {0, 1, 4} :
          /\ img1 \in {Uniform(w, height, Black), Edge(w, height, White, Black, 1, 0)}
          /\ img2 \in {Truncate(i, BufLen(i) - n) :
                          i \in {img1, ReplacePixel(img1, 0, Gray)}}
    /\ output \in {None} \cup {Buffer(Zeros(n)) :
                                 n \in {0, BufLen(img1) - 4, BufLen(img1), BufLen(img1) + 4}}
    /\ (BufLen(img1) # BufLen(img2) \/ BufLen(img1) # width * height * 4
          \/ (output.present /\ BufLen(output.buf) # BufLen(img1)))
    /\ InitLocals
    /\ InitAside

Init == InitValid \/ InitMalformed

\* lines 45-57
Check ==
    /\ pc = "call"
    /\ LET v == Validate(img1, img2, width, height, output)
       IN  IF v = "ok"
           THEN /\ pc' = "validated"
                /\ UNCHANGED result
           ELSE /\ pc' = "raised"
                /\ result' = [kind |-> "error", value |-> 0, error |-> v]
    /\ UNCHANGED <<img1, img2, width, height, output, opts, x, y, diff, maxDelta,
                   lastDelta, output0, counted, classes, reads, nbrs, aside>>

\* lines 59-65: fast path if identical
Identical ==
    /\ pc = "validated"
    /\ img1 = img2
    /\ output' = FastPath(img1, width, height, output, opts)
    /\ result' = [kind |-> "return", value |-> 0, error |-> "ok"]
    /\ pc' = "done"
    /\ UNCHANGED <<img1, img2, width, height, opts, x, y, diff, maxDelta,
                   lastDelta, output0, counted, classes, reads, nbrs, aside>>

\* lines 67-73
BeginSweep ==
    /\ pc = "validated"
    /\ img1 # img2
    /\ maxDelta' = MaxDelta(opts.threshold)
    /\ diff' = 0
    /\ x' = 0 /\ y' = 0
    /\ pc' = "sweep"
    /\ UNCHANGED <<img1, img2, width, height, output, opts, result,
                   lastDelta, output0, counted, classes, reads, nbrs, aside>>

\* the state after the loop body at pixel (x, y) left the locals at st
Compared(st) ==
    /\ output' = st.out
    /\ diff' = st.diff
    /\ classes' = Append(classes, st.class)
    /\ reads' = st.reads
    /\ nbrs' = st.nbrs
    /\ counted' = IF st.class = "diff"
                  THEN counted \cup {y * width + x} ELSE counted
    /\ IF st.returned
       THEN /\ pc' = "done"
            /\ result' = [kind |-> "return", value |-> 1, error |-> "ok"]
            /\ UNCHANGED <<x, y>>
       ELSE /\ UNCHANGED <<pc, result>>
            /\ x' = IF x + 1 < width THEN x + 1 ELSE 0
            /\ y' = IF x + 1 < width THEN y ELSE y + 1

\* lines 76-105: one iteration of the sweep, at pixel (x, y)
Compare ==
    /\ pc = "sweep"
    /\ y < height
    /\ Compared(ComparePixel(img1, img2, width, height, opts, maxDelta, x, y,
                             [out |-> output, diff |-> diff, returned |-> FALSE]))
    /\ lastDelta' = color_delta(img1, img2, (y * width + x) * 4, (y * width + x) * 4,
                                FALSE)
    /\ UNCHANGED <<img1, img2, width, height, opts, maxDelta, output0, aside>>

\* line 108
Return ==
    /\ pc = "sweep"
    /\ y >= height
    /\ result' = [kind |-> "return", value |-> diff, error |-> "ok"]
    /\ pc' = "done"
    /\ UNCHANGED <<img1, img2, width, height, output, opts, x, y, diff, maxDelta,
                   lastDelta, output0, counted, classes, reads, nbrs, aside>>

Next == Check \/ Identical \/ BeginSweep \/ Compare \/ Return

Spec == Init /\ [][Next]_vars

(***************************************************************************)
(* Calls with fail_fast and an output buffer none of whose elements is     *)
(* 0 or 255                                                                *)
(***************************************************************************)
FailFastOptions ==
    {[DefaultOptions EXCEPT !.fail_fast = TRUE, !.threshold = t,
                            !.includeAA = aa, !.diff_mask = m] :
        t \in {Dec(0, 0), Dec(1, 1)}, aa \in BOOLEAN, m \in BOOLEAN}

InitFailFast ==
    /\ \E d \in Sizes : width = d[1] /\ height = d[2]
    /\ img1 \in FirstImages(width, height)
    /\ img2 \in SecondImages(img1, width, height)
    /\ opts \in FailFastOptions
    /\ output = Buffer(Ramp(width * height * 4))
    /\ InitLocals
    /\ InitAside

SpecFailFast == InitFailFast /\ [][Next]_vars

(***************************************************************************)
(* The sweep of lines 76-108 shared by workers: each pixel belongs to one  *)
(* worker, which runs the loop body on it with its own count; the pixels   *)
(* are taken in any order, and the counts are added up at the end          *)
(***************************************************************************)
MaxShared == 6

Workers == {1, 2}

SharedSizes == {d \in Sizes : d[1] * d[2] <= MaxShared}

\* the pixels dealt out in turn, and the first half to one worker
Ownerships(n) ==
    <<[p \in 0 .. (n - 1) |-> 1 + (p % 2)],
      [p \in 0 .. (n - 1) |-> IF 2 * p < n THEN 1 ELSE 2]>>

\* the options that go with each of the two
SharedOptions ==
    <<DefaultOptions,
      [DefaultOptions EXCEPT !.threshold = Dec(0, 0), !.diff_mask = TRUE]>>

InitShared ==
    /\ \E d \in SharedSizes : width = d[1] /\ height = d[2]
    /\ img1 \in FirstImages(width, height)
    /\ img2 \in SecondImages(img1, width, height) \ {img1}
    /\ \E k \in {1, 2} : /\ opts = SharedOptions[k]
                          /\ owner = Ownerships(width * height)[k]
    /\ output = Buffer(Ramp(width * height * 4))
    /\ InitLocals
    /\ image = None
    /\ image0 = None
    /\ pending = 0 .. (width * height - 1)
    /\ partial = [w \in Workers |-> 0]

\* the state after the worker that owns the pending pixel p ran the loop
\* body on it and left its locals at st
ComparedBy(p, st) ==
    /\ output' = st.out
    /\ partial' = [partial EXCEPT ![owner[p]] = st.diff]
    /\ counted' = IF st.class = "diff" THEN counted \cup {p} ELSE counted
    /\ pending' = pending \ {p}

\* lines 78-105 at the pending pixel p, run by the worker that owns p
CompareAt(p) ==
    ComparedBy(p, ComparePixel(img1, img2, width, height, opts, maxDelta,
                               p % width, p \div width,
                               [out |-> output, diff |-> partial[owner[p]],
                                returned |-> FALSE]))

CompareAny ==
    /\ pc = "sweep"
    /\ \E p \in pending : CompareAt(p)
    /\ UNCHANGED <<img1, img2, width, height, opts, pc, x, y, diff, maxDelta,
                   lastDelta, result, output0, classes, reads, nbrs, image, image0,
                   owner>>

\* the sum of the workers' counts
RECURSIVE Sum(_, _)
Sum(f, S) ==
    IF S = {} THEN 0
    ELSE LET w == CHOOSE v \in S : TRUE IN f[w] + Sum(f, S \ {w})

\* line 108, the count being the sum of the workers' counts
Join ==
    /\ pc = "sweep"
    /\ pending = {}
    /\ diff' = Sum(partial, Workers)
    /\ result' = [kind |-> "return", value |-> Sum(partial, Workers), error |-> "ok"]
    /\ pc' = "done"
    /\ UNCHANGED <<img1, img2, width, height, output, opts, x, y, maxDelta,
                   lastDelta, output0, counted, classes, reads, nbrs, aside>>

NextShared == Check \/ BeginSweep \/ CompareAny \/ Join

SpecShared == InitShared /\ [][NextShared]_vars

(***************************************************************************)
(* contrib.PIL.pixelmatch.  img1 and img2 hold the bytes of the two RGBA   *)
(* images, width and height img1.size, image the output image's bytes.     *)
(* The adapter calls core.pixelmatch, whose steps are those above.         *)
(***************************************************************************)
\* convert("L") of an RGBA pixel: Pillow's ITU-R 601-2 luma in 16-bit fixed point
Luminance(s) == (s[1] * 19595 + s[2] * 38470 + s[3] * 7471 + 32768) \div 65536

\* line 89: point(lambda x: int(x * alpha)) on an alpha channel value
BlendWeight(a, alpha) == RTrunc(RMul(RInt(a), alpha))

\* Pillow's rounded division by 255
Div255(a) == (((a + 128) \div 256) + a + 128) \div 256

\* line 92: composite(luminance, white, mask) at one pixel
Composite(lum, mask) ==
    IF mask = 0 THEN 255
    ELSE IF mask = 255 THEN lum
    ELSE Div255(255 * (255 - mask) + lum * mask)

\* lines 85-93: the bytes _draw_grayscale pastes into the output image
draw_grayscale(img, alpha) ==
    [k \in DOMAIN img |->
        IF k % 4 = 3 THEN 255
        ELSE Composite(Luminance(Sample(img, 4 * (k \div 4))),
                       BlendWeight(At(img, 4 * (k \div 4) + 3), alpha))]

PILOptions ==
    {DefaultOptions,
     [DefaultOptions EXCEPT !.alpha = Dec(5, 1)],
     [DefaultOptions EXCEPT !.diff_mask = TRUE],
     [DefaultOptions EXCEPT !.threshold = Dec(0, 0), !.includeAA = TRUE,
                            !.diff_mask = TRUE]}

\* the output images a call is made with: none, a blank one, one in use
PILOutputs(n) == {None, Buffer(Zeros(n)), Buffer(Ramp(n))}

InitPIL ==
    /\ \E d \in Sizes : width = d[1] /\ height = d[2]
    /\ img1 \in FirstImages(width, height)
    /\ img2 \in SecondImages(img1, width, height)
    /\ opts \in PILOptions
    /\ image \in PILOutputs(width * height * 4)
    /\ image0 = image
    /\ output = None
    /\ InitState
    /\ pc = "pil_call"
    /\ pending = {}
    /\ owner = <<>>
    /\ partial = <<>>

\* lines 52-56: fast path, byte-identical images have no diff
PILIdentical ==
    /\ pc = "pil_call"
    /\ img1 = img2
    /\ image' = IF image.present /\ ~opts.diff_mask
                 THEN Buffer(draw_grayscale(img1, opts.alpha))
                 ELSE image
    /\ result' = [kind |-> "return", value |-> 0, error |-> "ok"]
    /\ pc' = "pil_done"
    /\ UNCHANGED <<img1, img2, width, height, output, opts, x, y, diff, maxDelta,
                   lastDelta, output0, counted, classes, reads, nbrs, image0,
                   pending, owner, partial>>

\* lines 58-77: output_data zeroed, core.pixelmatch called on it
PILCallCore ==
    /\ pc = "pil_call"
    /\ img1 # img2
    /\ output' = IF image.present THEN Buffer(Zeros(BufLen(img1))) ELSE None
    /\ output0' = output'
    /\ pc' = "call"
    /\ UNCHANGED <<img1, img2, width, height, opts, x, y, diff, maxDelta,
                   lastDelta, result, counted, classes, reads, nbrs, aside>>

\* lines 79-82: output.frombytes(bytes(output_data)), the count returned
PILWriteBack ==
    /\ pc = "done"
    /\ image' = IF output.present /\ image.present THEN output ELSE image
    /\ pc' = "pil_done"
    /\ UNCHANGED <<img1, img2, width, height, output, opts, x, y, diff, maxDelta,
                   lastDelta, result, output0, counted, classes, reads, nbrs,
                   image0, pending, owner, partial>>

NextPIL ==
    \/ PILIdentical \/ PILCallCore
    \/ Check \/ BeginSweep \/ Compare \/ Return
    \/ PILWriteBack

SpecPIL == InitPIL /\ [][NextPIL]_vars

(***************************************************************************)
(* Calls at threshold 0 on images of up to MaxSide x MaxSide pixels, where *)
(* a pixel can have all eight neighbours                                   *)
(***************************************************************************)
MaxSide == 3
MaxArea == 9

ClassifierSizes ==
    {d \in (1 .. MaxSide) \X (1 .. MaxSide) : d[1] * d[2] <= MaxArea}

InitClassifier ==
    /\ \E d \in ClassifierSizes : width = d[1] /\ height = d[2]
    /\ img1 \in FirstImages(width, height)
    /\ img2 \in SecondImages(img1, width, height)
    /\ opts = [DefaultOptions EXCEPT !.threshold = Dec(0, 0)]
    /\ output = None
    /\ InitLocals
    /\ InitAside

SpecClassifier == InitClassifier /\ [][Next]_vars

(***************************************************************************)
(* Calls on images of one sample each, over every pair of palette samples  *)
(***************************************************************************)
MaxUniformSide == 2

UniformSizes == {<<n, n>> : n \in 1 .. MaxUniformSide}

SampleOptions ==
    {[DefaultOptions EXCEPT !.threshold = t] : t \in Thresholds}
      \cup {[DefaultOptions EXCEPT !.threshold = Dec(1, 0), !.includeAA = aa,
                                   !.fail_fast = ff, !.diff_mask = m] :
              aa \in BOOLEAN, ff \in BOOLEAN, m \in BOOLEAN}
      \cup {[DefaultOptions EXCEPT !.threshold = t, !.alpha = a] :
              t \in {Dec(1, 1), Dec(1, 0)}, a \in Alphas}
      \cup {[DefaultOptions EXCEPT !.threshold = Dec(0, 0), !.includeAA = TRUE,
                                   !.fail_fast = TRUE]}

InitSamples ==
    /\ \E d \in UniformSizes : width = d[1] /\ height = d[2]
    /\ \E s1 \in Palette, s2 \in Palette :
          /\ img1 = Uniform(width, height, s1)
          /\ img2 = Uniform(width, height, s2)
    /\ opts \in SampleOptions
    /\ output \in Outputs(opts, width * height * 4)
    /\ InitLocals
    /\ InitAside

SpecSamples == InitSamples /\ [][Next]_vars

(***************************************************************************)
(* Calls on images with fully transparent pixels, the second image the     *)
(* first with some pixels given other RGB values or another sample         *)
(***************************************************************************)
\* img with the RGB channels of each of its fully transparent pixels set to
\* those of the sample c
Recoloured(img, c) ==
    [k \in DOMAIN img |->
        IF img[4 * (k \div 4) + 3] = 0 /\ k % 4 < 3 THEN c[(k % 4) + 1] ELSE img[k]]

\* images of transparent pixels alone, and next to opaque and
\* semi-transparent ones
ClearImages(w, h) ==
    {Uniform(w, h, ClearBlack), Edge(w, h, HalfRed, ClearBlue, 1, 1)}
      \cup {Edge(w, h, ClearBlack, a, s0, 1) : a \in {White, Black}, s0 \in {0, 1}}

\* img, img with its transparent pixels recoloured, and img with one pixel
\* replaced by a transparent or an opaque sample
ClearVariants(img, w, h) ==
    {img, Recoloured(img, ClearBlue), Recoloured(img, Red)}
      \cup {ReplacePixel(img, p, c) :
               p \in 0 .. (w * h - 1), c \in {ClearBlack, ClearBlue, Gray}}

ClearOptions ==
    {[DefaultOptions EXCEPT !.threshold = t, !.includeAA = aa] :
        t \in Thresholds, aa \in BOOLEAN}
      \cup {[DefaultOptions EXCEPT !.threshold = Dec(0, 0), !.includeAA = aa,
                                   !.fail_fast = TRUE] : aa \in BOOLEAN}

InitTransparent ==
    /\ \E d \in Sizes : width = d[1] /\ height = d[2]
    /\ img1 \in ClearImages(width, height)
    /\ img2 \in ClearVariants(img1, width, height)
    /\ opts \in ClearOptions
    /\ output = Buffer(Zeros(width * height * 4))
    /\ InitLocals
    /\ InitAside

SpecTransparent == InitTransparent /\ [][Next]_vars

(***************************************************************************)
(* Properties of a call, stated on its last state and on what the whole    *)
(* call, made again with other arguments, returns                          *)
(***************************************************************************)
\* the count the call returns with images i1, i2 and options o, no output given
CountOf(i1, i2, o) == pixelmatch(i1, i2, width, height, None, o).ret

Returned(v) == pc = "done" /\ result.kind = "return" /\ result.value = v

Classes == {classes[i] : i \in DOMAIN classes}

Pixels == 0 .. (width * height - 1)

\* int(255 + (Y(rgb) - 255) * alpha * a / 255) for the sample s
BlendedGray(s, alpha) ==
    RTrunc(RAdd(RInt(255),
                RDiv255(RMul(RMul(RSub(rgb2y(RInt(s[1]), RInt(s[2]), RInt(s[3])),
                                       RInt(255)),
                                  alpha),
                             RInt(s[4])))))

\* BlendedGray on the palette and the alpha values, computed once
BlendedGrays ==
    [k \in Palette \X Alphas |-> BlendedGray(k[1], k[2])] @@ <<>>

\* C1: a call on two identical images of the right length returns 0, and
\* when an output buffer is given with diff_mask false every output pixel
\* is (g, g, g, 255) afterwards, g the grayscale blend of the image's pixel
IdentityReturnsZero ==
    (pc \in {"done", "raised"} /\ img1 = img2
       /\ Validate(img1, img2, width, height, output0) = "ok") =>
        /\ Returned(0)
        /\ (Truthy(output0) /\ ~opts.diff_mask) =>
              \A p \in Pixels :
                 LET g == BlendedGrays[<<Sample(img1, 4 * p), opts.alpha>>]
                 IN  Sample(output.buf, 4 * p) = <<g, g, g, 255>>

\* an identical pair with a semi-transparent pixel has been painted gray
IdentityPainted ==
    /\ Returned(0) /\ img1 = img2
    /\ Truthy(output0) /\ ~opts.diff_mask
    /\ width * height > 1
    /\ Sample(img1, 0) = HalfRed
    /\ opts.alpha = Dec(5, 1)
    /\ output # output0

\* C2: the count returned for (img1, img2) is the count the same call
\* returns for (img2, img1), under every configuration
SymmetricCount ==
    pc = "done" => result.value = CountOf(img2, img1, opts)

\* a call that found an anti-aliased pixel and a real difference
SymmetricOnAntialiased ==
    /\ pc = "done" /\ img1 # img2
    /\ "aa" \in Classes
    /\ result.value >= 1

\* C3: for the same images and includeAA, the full-scan count at a larger
\* threshold is at most the count at a smaller one
ThresholdMonotone ==
    (pc = "done" /\ ~opts.fail_fast) =>
        \A t2 \in Thresholds :
           RLess(opts.threshold, t2) =>
              CountOf(img1, img2, [opts EXCEPT !.threshold = t2]) <= result.value

\* a call at threshold 0.05 that counted more than the call at 0.1 counts,
\* which counts more than the call at 1
ThresholdDrops ==
    /\ pc = "done" /\ ~opts.fail_fast
    /\ opts.threshold = Dec(5, 2)
    /\ CountOf(img1, img2, [opts EXCEPT !.threshold = Dec(1, 1)]) < result.value
    /\ CountOf(img1, img2, [opts EXCEPT !.threshold = Dec(1, 1)])
          > CountOf(img1, img2, [opts EXCEPT !.threshold = Dec(1, 0)])

\* C4: with fail_fast the call returns 1 when the full scan counts at least
\* one difference and 0 when it counts none, and nothing else
FailFastConsistent ==
    (pc = "done" /\ opts.fail_fast) =>
        LET full == CountOf(img1, img2, [opts EXCEPT !.fail_fast = FALSE])
        IN  /\ result.value \in {0, 1}
            /\ (full > 0) => result.value = 1
            /\ (full = 0) => result.value = 0

\* a fail-fast call returned 1 before the last pixel, the full count being more
FailFastStopsEarly ==
    /\ Returned(1) /\ opts.fail_fast
    /\ Len(classes) < width * height
    /\ CountOf(img1, img2, [opts EXCEPT !.fail_fast = FALSE]) >= 2

\* C5: with an output buffer and diff_mask, every pixel counted as a real
\* difference holds (diff_color, 255) and every other pixel holds the four
\* values it held before the call
MaskLeavesOthersUntouched ==
    (Truthy(output0) /\ opts.diff_mask) =>
        \A p \in Pixels :
           Sample(output.buf, 4 * p) =
              IF p \in counted
              THEN <<opts.diff_color[1], opts.diff_color[2], opts.diff_color[3], 255>>
              ELSE Sample(output0.buf, 4 * p)

\* a mask call that met a difference, an anti-aliased and a matching pixel
MaskOverAllClasses ==
    /\ pc = "done" /\ Truthy(output0) /\ opts.diff_mask
    /\ Classes = {"diff", "aa", "bg"}
    /\ output # output0

\* C6: when len(img1) # len(img2) or len(img1) # width*height*4 the call
\* raises an error and returns no count, the error being the size mismatch
\* when the two lengths differ, and the output buffer is as it was
ValidationFailsFirst ==
    (pc # "call"
       /\ (BufLen(img1) # BufLen(img2) \/ BufLen(img1) # width * height * 4)) =>
        /\ pc = "raised"
        /\ result.kind = "error"
        /\ (BufLen(img1) # BufLen(img2)) => result.error = "Image sizes do not match."
        /\ (BufLen(img1) = BufLen(img2)
              /\ ~(Truthy(output0) /\ BufLen(output0.buf) # BufLen(img1))) =>
              result.error = "Image data size does not match width/height."
        /\ output = output0
        /\ classes = <<>> /\ counted = {}

\* a call raised with both the lengths and the dimensions wrong
BothChecksFail ==
    /\ pc = "raised"
    /\ BufLen(img1) # BufLen(img2)
    /\ BufLen(img1) # width * height * 4
    /\ Truthy(output0)

\* C7: a call given an output buffer of any length other than len(img1),
\* length 0 included, raises the size-mismatch error before it compares or
\* paints anything
OutputLengthChecked ==
    (pc # "call" /\ output0.present /\ BufLen(output0.buf) # BufLen(img1)) =>
        /\ pc = "raised"
        /\ result.kind = "error"
        /\ result.error \in {"Image sizes do not match.",
                             "Diff image size does not match img1 & img2."}

\* C8: a call with an output buffer of the images' length returns the
\* count the same call returns with no output
CountIgnoresOutput ==
    (pc = "done" /\ output0.present /\ BufLen(output0.buf) = BufLen(img1)) =>
        result.value = CountOf(img1, img2, opts)

\* a call that painted differences and anti-aliased pixels into its output
PaintedAndCounted ==
    /\ pc = "done" /\ Truthy(output0)
    /\ result.value >= 1
    /\ "aa" \in Classes
    /\ output # output0

\* the pixels whose colour delta is over 35215 * threshold^2
OverThreshold ==
    {p \in Pixels :
        RLess(MaxDelta(opts.threshold),
              color_delta(img1, img2, 4 * p, 4 * p, FALSE))}

\* whether neither direction of the anti-aliasing test accepts pixel p
NotAntialiased(p) ==
    /\ ~antialiased(img1, p % width, p \div width, width, height, img2).ret
    /\ ~antialiased(img2, p % width, p \div width, width, height, img1).ret

\* C9: for different images and fail_fast false the call returns the number
\* of pixels over the threshold that includeAA admits or that neither
\* direction of the anti-aliasing test accepts; with includeAA that is the
\* number of pixels over the threshold, never less than without it
CountIsDefinition ==
    (pc = "done" /\ img1 # img2 /\ ~opts.fail_fast) =>
        LET over == OverThreshold
        IN  /\ counted = {p \in over : opts.includeAA \/ NotAntialiased(p)}
            /\ result.value = Cardinality(counted)
            /\ opts.includeAA => result.value = Cardinality(over)
            /\ ~opts.includeAA =>
                  result.value <= CountOf(img1, img2, [opts EXCEPT !.includeAA = TRUE])

\* a call without includeAA that counted fewer pixels than are over the threshold
AntialiasedNotCounted ==
    /\ pc = "done" /\ img1 # img2 /\ ~opts.fail_fast /\ ~opts.includeAA
    /\ result.value >= 1
    /\ result.value < Cardinality(OverThreshold)
    /\ "aa" \in Classes

\* C10: every buffer index the anti-aliasing test of a pixel reads, the
\* follow-up has_many_siblings calls included, is in 0 .. width*height*4 - 1,
\* every centre and neighbour is inside the image, and no centre is visited
\* as its own neighbour
BorderSafe ==
    /\ reads \subseteq 0 .. (width * height * 4 - 1)
    /\ \A n \in nbrs :
          /\ n[1] \in 0 .. (width - 1) /\ n[2] \in 0 .. (height - 1)
          /\ n[3] \in 0 .. (width - 1) /\ n[4] \in 0 .. (height - 1)
          /\ <<n[3], n[4]>> # <<n[1], n[2]>>

\* the test of a corner pixel went on to has_many_siblings at another centre
\* and read the last element of the buffer
FollowUpAtBorder ==
    /\ pc \in {"sweep", "done"}
    /\ Cardinality({<<n[1], n[2]>> : n \in nbrs}) >= 2
    /\ (width * height * 4 - 1) \in reads
    /\ 0 \in reads

\* the output's pixel number p after the call, and before it
Painted(p) == Sample(output.buf, 4 * p)

Unpainted(p) == Sample(output0.buf, 4 * p)

\* C19: on identical images the per-pixel sweep, run in place of the fast
\* path, returns 0 and leaves the output as the fast path leaves it, under
\* every configuration
FastPathIsSweep ==
    (pc = "done" /\ img1 = img2) =>
        LET swept == Sweep(img1, img2, width, height, opts,
                           MaxDelta(opts.threshold), 0,
                           [out |-> output0, diff |-> 0, returned |-> FALSE])
        IN  /\ Returned(0)
            /\ swept.ret = 0
            /\ swept.out = output

\* the fast path painted an image with a semi-transparent pixel at threshold 0
FastPathAtThresholdZero ==
    /\ Returned(0) /\ img1 = img2
    /\ opts.threshold = Dec(0, 0)
    /\ Sample(img1, 0) = HalfRed
    /\ Truthy(output0) /\ output # output0

\* the first pixel, in row-major order, over the threshold that includeAA
\* admits or that neither direction of the anti-aliasing test accepts; the
\* number of pixels when there is none
FirstDifference ==
    LET real == {p \in OverThreshold : opts.includeAA \/ NotAntialiased(p)}
    IN  IF real = {} THEN width * height
        ELSE CHOOSE p \in real : \A r \in real : p <= r

\* C14: a fail_fast call with an output buffer that meets a real difference,
\* first at pixel q, leaves q holding (diff_color, 255), every pixel before q
\* holding what the full scan writes there and every pixel after q as it
\* was before the call
FailFastPartialOutput ==
    (pc = "done" /\ opts.fail_fast /\ Truthy(output0) /\ img1 # img2) =>
        LET q == FirstDifference
            full == pixelmatch(img1, img2, width, height, output0,
                               [opts EXCEPT !.fail_fast = FALSE]).out
        IN  /\ q < width * height <=> Returned(1)
            /\ q < width * height =>
                  /\ Len(classes) = q + 1
                  /\ Painted(q) = <<opts.diff_color[1], opts.diff_color[2],
                                    opts.diff_color[3], 255>>
            /\ \A p \in Pixels :
                  /\ p < q => Painted(p) = Sample(full.buf, 4 * p)
                  /\ p > q => Painted(p) = Unpainted(p)

\* a fail_fast call stopped at a middle pixel, after painting an
\* anti-aliased pixel, with pixels left unpainted
FailFastStoppedMidway ==
    /\ Returned(1) /\ opts.fail_fast /\ ~opts.diff_mask
    /\ Len(classes) >= 2 /\ Len(classes) < width * height
    /\ \E p \in Pixels :
          /\ p + 1 \in DOMAIN classes /\ classes[p + 1] = "aa"
          /\ Painted(p) = <<255, 255, 0, 255>>
    /\ Painted(width * height - 1) = Unpainted(width * height - 1)

(***************************************************************************)
(* Properties of calls on images of one sample each (SpecSamples)          *)
(***************************************************************************)
\* the one sample every pixel of a uniform image holds
SampleOf(img) == Sample(img, 0)

\* 35215 * threshold^2, the threshold squared first
Scaled(threshold) == RMul(RInt(35215), RMul(threshold, threshold))

\* C11: on two 1x1 images antialiased returns false in both directions, so
\* without includeAA the call returns 1 exactly when the pixel's colour delta
\* exceeds 35215 * threshold^2 and 0 otherwise; opaque black against opaque
\* white at threshold 0.1 returns 1
SinglePixelCount ==
    (pc = "done" /\ width = 1 /\ height = 1 /\ ~opts.includeAA) =>
        /\ ~antialiased(img1, 0, 0, 1, 1, img2).ret
        /\ ~antialiased(img2, 0, 0, 1, 1, img1).ret
        /\ result.value =
              IF RLess(Scaled(opts.threshold),
                       color_delta(img1, img2, 0, 0, FALSE))
              THEN 1 ELSE 0
        /\ (SampleOf(img1) = Black /\ SampleOf(img2) = White
               /\ opts.threshold = Dec(1, 1)) => result.value = 1

\* the call on a black and a white pixel at threshold 0.1 returned 1
BlackAgainstWhite ==
    /\ Returned(1) /\ width = 1 /\ height = 1 /\ ~opts.includeAA
    /\ SampleOf(img1) = Black /\ SampleOf(img2) = White
    /\ opts.threshold = Dec(1, 1)
    /\ classes = <<"diff">>

\* the pixels painted as background so far
PaintedBackground ==
    IF img1 = img2 THEN IF pc = "done" THEN Pixels ELSE {}
    ELSE {p \in Pixels : p + 1 \in DOMAIN classes /\ classes[p + 1] = "bg"}

\* C12: with an output buffer and diff_mask false, every background pixel
\* whose img1 alpha is 0 is painted (255, 255, 255, 255) whatever alpha
\* option and RGB values; two identical fully transparent 2x2 images give
\* result 0 and an output of 255 throughout
TransparentPaintsWhite ==
    (Truthy(output0) /\ ~opts.diff_mask) =>
        /\ \A p \in PaintedBackground :
              At(img1, 4 * p + 3) = 0 =>
                 Sample(output.buf, 4 * p) = <<255, 255, 255, 255>>
        /\ (pc = "done" /\ img1 = img2 /\ width = 2 /\ height = 2
               /\ \A p \in Pixels : At(img1, 4 * p + 3) = 0) =>
              /\ Returned(0)
              /\ \A k \in DOMAIN output.buf : output.buf[k] = 255

\* two identical transparent 2x2 images with RGB values, alpha option 1,
\* painted white
TransparentIdentical ==
    /\ Returned(0) /\ img1 = img2 /\ width = 2 /\ height = 2
    /\ SampleOf(img1) = ClearBlue
    /\ opts.alpha = Dec(1, 0)
    /\ Truthy(output0) /\ ~opts.diff_mask
    /\ output # output0

\* whether the rational a is at most the rational b
RLeq(a, b) == ~RLess(b, a)

\* color_delta of opaque black against opaque white, of red against cyan
BlackWhiteDelta == DeltaTable[<<Black, White, FALSE>>]

RedCyanDelta == DeltaTable[<<Red, Cyan, FALSE>>]

\* the numbers the two are compared with
Halves == [n \in {328565, 328575, 352145, 352150, 352155} |-> RCanon(Dec(n, 1))]

\* C16 as claimed: no pair of samples has a colour delta above that of
\* opaque black against opaque white, which rounds to 35215
BlackWhiteIsMaximum ==
    (pc \in {"sweep", "done"} /\ classes # <<>>) =>
        /\ RLeq(lastDelta, BlackWhiteDelta)
        /\ RLeq(Halves[352145], BlackWhiteDelta)
        /\ RLess(BlackWhiteDelta, Halves[352155])

\* C16: 35215 is the maximum of color_delta rounded to an integer: no pair
\* of samples has a colour delta above that of opaque red against opaque
\* cyan, which is at least 35214.5 and below 35215, and opaque black against
\* opaque white gives less, a value that rounds to 32857
RedCyanIsMaximum ==
    (pc \in {"sweep", "done"} /\ classes # <<>>) =>
        /\ RLeq(lastDelta, RedCyanDelta)
        /\ RLeq(Halves[352145], RedCyanDelta)
        /\ RLess(RedCyanDelta, Halves[352150])
        /\ RLeq(Halves[328565], BlackWhiteDelta)
        /\ RLess(BlackWhiteDelta, Halves[328575])

\* the sweep computed the delta of red against cyan, the largest there is
RedAgainstCyan ==
    /\ pc \in {"sweep", "done"} /\ classes # <<>>
    /\ SampleOf(img1) = Red /\ SampleOf(img2) = Cyan
    /\ RCmp(lastDelta, RedCyanDelta) = 0
    /\ RLess(BlackWhiteDelta, lastDelta)

\* C20: at threshold 1 no pixel's colour delta is above maxDelta = 35215,
\* so under every other option the call returns 0, counts nothing, and
\* every pixel it has compared is background: as it was before the call
\* under diff_mask, the gray of img1's pixel otherwise
ThresholdOneAcceptsAll ==
    (opts.threshold = Dec(1, 0) /\ pc \in {"sweep", "done"} /\ img1 # img2) =>
        /\ RCmp(maxDelta, Halves[352150]) = 0
        /\ classes # <<>> => RLeq(lastDelta, maxDelta)
        /\ \A i \in DOMAIN classes : classes[i] = "bg"
        /\ counted = {}
        /\ pc = "done" => Returned(0)
        /\ Truthy(output0) =>
              \A p \in Pixels :
                 Sample(output.buf, 4 * p) =
                    IF p + 1 \in DOMAIN classes /\ ~opts.diff_mask
                    THEN LET g == BlendedGrays[<<Sample(img1, 4 * p), opts.alpha>>]
                         IN  <<g, g, g, 255>>
                    ELSE Sample(output0.buf, 4 * p)

\* a fail-fast mask call at threshold 1 on red against cyan returned 0
ThresholdOneOnExtremes ==
    /\ Returned(0) /\ opts.threshold = Dec(1, 0)
    /\ SampleOf(img1) = Red /\ SampleOf(img2) = Cyan
    /\ opts.fail_fast /\ opts.includeAA /\ ~opts.diff_mask
    /\ Len(classes) = width * height /\ width = 2
    /\ output # output0

(***************************************************************************)
(* Properties of the anti-aliasing classifier (SpecClassifier), stated at  *)
(* the pixel the sweep has just put to the test                            *)
(***************************************************************************)
\* the sweep has just compared a pixel and run the anti-aliasing test on it
Tested ==
    /\ pc \in {"sweep", "done"} /\ classes # <<>>
    /\ classes[Len(classes)] # "bg"
    /\ ~opts.includeAA

\* the pixel just compared
LastX == (Len(classes) - 1) % width

LastY == (Len(classes) - 1) \div width

\* the pixels next to (cx, cy), in the order the scan visits them
Neighbours(cx, cy) ==
    {n \in (0 .. (width - 1)) \X (0 .. (height - 1)) :
        /\ n[1] - cx \in {-1, 0, 1} /\ n[2] - cy \in {-1, 0, 1}
        /\ n # <<cx, cy>>}

ScannedBefore(m, n) == m[1] < n[1] \/ (m[1] = n[1] /\ m[2] < n[2])

\* the brightness delta between the centre (cx, cy) and its neighbour n
NeighbourDelta(img, cx, cy, n) ==
    color_delta(img, img, (cy * width + cx) * 4, (n[2] * width + n[1]) * 4, TRUE)

\* the alpha-blended brightness Y of the palette samples
Brightness ==
    [s \in Palette |->
        RCanon(rgb2y(Blended(s)[1], Blended(s)[2], Blended(s)[3]))] @@ <<>>

BrightnessAt(img, n) == Brightness[Sample(img, (n[2] * width + n[1]) * 4)]

\* whether (min_x, min_y) is a neighbour of minimal brightness Y and
\* (max_x, max_y) one of maximal Y, when the scan of pixel (cx, cy) of img
\* ends without the early exit, a negative and a positive delta seen
DarkestAndBrightest(img, cx, cy) ==
    LET st == AntialiasedScan(img, cx, cy, width, height)
    IN  (~st.returned /\ RLess(st.min_delta, RInt(0))
           /\ RLess(RInt(0), st.max_delta)) =>
          \A n \in Neighbours(cx, cy) :
             /\ RLeq(BrightnessAt(img, <<st.min_x, st.min_y>>),
                     BrightnessAt(img, n))
             /\ RLeq(BrightnessAt(img, n),
                     BrightnessAt(img, <<st.max_x, st.max_y>>))

\* C17 as claimed: in the scans of the pixel just tested, of img1 and of
\* img2, (min_x, min_y) is the darkest neighbour and (max_x, max_y) the
\* brightest
MinIsDarkest ==
    Tested =>
        /\ DarkestAndBrightest(img1, LastX, LastY)
        /\ DarkestAndBrightest(img2, LastX, LastY)

\* the neighbour of the most negative (sign = -1) or most positive (sign = 1)
\* delta, the first the scan visits when several share it
Extreme(img, cx, cy, sign) ==
    CHOOSE n \in Neighbours(cx, cy) :
        \A m \in Neighbours(cx, cy) \ {n} :
           LET c == RCmp(NeighbourDelta(img, cx, cy, n),
                         NeighbourDelta(img, cx, cy, m)) * sign
           IN  c > 0 \/ (c = 0 /\ ScannedBefore(n, m))

ManySiblingsInBoth(img, other, n) ==
    /\ has_many_siblings(img, n[1], n[2], width, height).ret
    /\ has_many_siblings(other, n[1], n[2], width, height).ret

\* the three conditions on the pixel (cx, cy) of img
Characterised(img, other, cx, cy) ==
    LET seed == IF cx \in {0, width - 1} \/ cy \in {0, height - 1} THEN 1 ELSE 0
        equal == {n \in Neighbours(cx, cy) :
                     RIsZero(NeighbourDelta(img, cx, cy, n))}
        darker == \E n \in Neighbours(cx, cy) :
                     RLess(NeighbourDelta(img, cx, cy, n), RInt(0))
        brighter == \E n \in Neighbours(cx, cy) :
                       RLess(RInt(0), NeighbourDelta(img, cx, cy, n))
    IN  /\ seed + Cardinality(equal) <= 2
        /\ darker /\ brighter
        /\ \/ ManySiblingsInBoth(img, other, Extreme(img, cx, cy, -1))
           \/ ManySiblingsInBoth(img, other, Extreme(img, cx, cy, 1))

\* C18: antialiased(img, x, y, w, h, img2) is true exactly when the border
\* seed plus the number of neighbours of brightness delta 0 is at most 2, a
\* neighbour has a negative and a neighbour a positive delta, and
\* has_many_siblings holds in both images at the neighbour of the most
\* negative delta or in both at that of the most positive; in both directions
ClassifierCharacterised ==
    Tested =>
        /\ antialiased(img1, LastX, LastY, width, height, img2).ret
              <=> Characterised(img1, img2, LastX, LastY)
        /\ antialiased(img2, LastX, LastY, width, height, img1).ret
              <=> Characterised(img2, img1, LastX, LastY)

\* the test of a pixel with all eight neighbours, two of them equal to it,
\* found it anti-aliased
InteriorAntialiased ==
    /\ Tested /\ classes[Len(classes)] = "aa"
    /\ width >= 3 /\ height >= 3
    /\ LastX = 1 /\ LastY = 1

(***************************************************************************)
(* Properties of the sweep shared by workers (SpecShared)                  *)
(***************************************************************************)
\* what the row-major sweep of the one caller returns and paints
RowMajor == pixelmatch(img1, img2, width, height, output0, opts)

\* every pixel not yet compared holds what it held before the call and each
\* worker's count is the number of its own pixels found different; at the
\* end the sum of the counts is the count of the row-major sweep and the
\* output buffer is the one it paints
AgreesWithRowMajor ==
    (pc \in {"sweep", "done"} /\ ~opts.fail_fast) =>
        /\ \A p \in pending : Painted(p) = Unpainted(p)
        /\ \A w \in Workers :
              partial[w] = Cardinality({p \in counted : owner[p] = w})
        /\ pc = "done" =>
              /\ result.value = RowMajor.ret
              /\ result.value = Cardinality(counted)
              /\ output = RowMajor.out

\* a step paints no pixel that has been compared, and none but the pixel
\* it compares
PaintsOwnPixel ==
    \A p \in Pixels :
       (p \notin pending \/ p \in pending') =>
          Sample(output'.buf, 4 * p) = Painted(p)

\* C15: without fail_fast, with the pixels compared in any order by workers
\* that own disjoint sets of them, each output pixel is written at most
\* once, by the step that compares it, and the final count, the sum of the
\* workers' counts, and the final output buffer are those of the row-major
\* sweep of the one caller
OrderIndependent == []AgreesWithRowMajor /\ [][PaintsOwnPixel]_vars

\* the second worker counted a difference, and an anti-aliased pixel was painted
SecondWorkerCounted ==
    /\ pc = "done" /\ ~opts.fail_fast
    /\ partial[2] >= 1
    /\ \E p \in Pixels : Painted(p) = <<255, 255, 0, 255>>

(***************************************************************************)
(* Properties of contrib.PIL.pixelmatch (SpecPIL)                          *)
(***************************************************************************)
\* C13: when the adapter is called with an output image and diff_mask,
\* every pixel of the image that is not painted with the diff colour holds
\* after the call what it held before, on the fast path and on the
\* comparison path
MaskKeepsImage ==
    (pc = "pil_done" /\ image0.present /\ opts.diff_mask) =>
        \A p \in Pixels :
           Sample(image.buf, 4 * p) =
              IF p \in counted
              THEN <<opts.diff_color[1], opts.diff_color[2], opts.diff_color[3], 255>>
              ELSE Sample(image0.buf, 4 * p)

(***************************************************************************)
(* Properties of calls on images with fully transparent pixels             *)
(* (SpecTransparent)                                                       *)
(***************************************************************************)
\* fully transparent samples over three values of each colour channel
ClearSamples == {<<r, g, b, 0>> : r \in {0, 100, 255}, g \in {0, 100, 255},
                                  b \in {0, 100, 255}}

\* every fully transparent sample blends to pure white, and color_delta on
\* two of them is 0, the brightness difference alone included
ClearSamplesEqual ==
    \A s1 \in ClearSamples :
       /\ \A i \in 1 .. 3 : RIsZero(RSub(Blended(s1)[i], RInt(255)))
       /\ \A s2 \in ClearSamples, y_only \in BOOLEAN :
             RIsZero(color_delta(Flat(<<s1>>), Flat(<<s2>>), 0, 0, y_only))

\* the pixels at which the two images differ
Differing == {p \in Pixels : Sample(img1, 4 * p) # Sample(img2, 4 * p)}

\* the images differ in nothing but the RGB channels of pixels that are
\* fully transparent in both
OnlyClearDiffer ==
    \A p \in Differing : At(img1, 4 * p + 3) = 0 /\ At(img2, 4 * p + 3) = 0

\* C21: color_delta on two samples of alpha 0 is exactly 0 whatever their
\* RGB values, both blending to pure white; so two images that differ only
\* in the RGB channels of pixels fully transparent in both give delta 0 at
\* every pixel compared and diff count 0 at every threshold, and when they
\* differ the count comes from the sweep over every pixel, not from the
\* fast path
TransparentCompareEqual ==
    /\ ClearSamplesEqual
    /\ OnlyClearDiffer =>
          /\ pc \in {"sweep", "done"} => RIsZero(lastDelta)
          /\ pc = "done" =>
                /\ Returned(0)
                /\ img1 # img2 =>
                      classes = [i \in 1 .. (width * height) |-> "bg"]

\* a call at threshold 0 on images with an opaque pixel that differ in the
\* RGB values of two or more transparent pixels swept every pixel and
\* returned 0
TransparentRecoloured ==
    /\ Returned(0) /\ OnlyClearDiffer
    /\ Cardinality(Differing) >= 2
    /\ \E p \in Pixels : At(img1, 4 * p + 3) = 255
    /\ opts.threshold = Dec(0, 0)
    /\ Len(classes) = width * height

====
